---------------------------- MODULE Spec2Model ----------------------------
(***************************************************************************)
(* A model of dagan-utils-rs: the line selector (src/line.rs: Pattern,    *)
(* Pattern::parse, write_lines) and the stream splitter (src/sss.rs:      *)
(* stream_split).                                                         *)
(*                                                                         *)
(* Text is a sequence of one-character strings.  Option<T> is a sequence  *)
(* of length 0 (None) or 1 (Some).  Result<T> is a pair <<"Ok", v>> or    *)
(* <<"Err", message>>.                                                    *)
(*                                                                         *)
(* Three specifications share the variables:                              *)
(*   SpecParse  one call of Pattern::parse on an arbitrary token          *)
(*   Spec       one call of write_lines, one step per I/O operation       *)
(*   SpecSplit  one call of stream_split, one step per I/O operation      *)
(***************************************************************************)
EXTENDS Integers, Sequences, FiniteSets, TLC

VARIABLES
    \* Pattern::parse
    token,            \* the &str handed to Pattern::parse
    parsed,           \* <<>> before the call, <<result>> after it
    \* write_lines
    patternsArg,      \* the argument `patterns: &str`
    fin,              \* the bytes of the input stream
    show_line_number, \* options.show_line_number
    pc,               \* position in write_lines
    patterns,         \* the Vec<Pattern> of line 86
    pos,              \* bytes of fin consumed by fin.lines()
    number,           \* the 1-indexed number of the current line (0: none yet)
    line,             \* the text of the current line
    idx,              \* position of `for pattern in &patterns`
    can_break,        \* the flag of line 117
    fout,             \* the bytes the output sink holds
    result,           \* what write_lines returned
    ioFailed,         \* history: a read or a write of this call has failed
    \* stream_split
    stdin,            \* the bytes of the reader
    rpos,             \* bytes of stdin already delivered
    buf,              \* the PAGE_SIZE buffer
    bytes,            \* the count the last read returned
    stdout,           \* the bytes the first sink holds
    stderr,           \* the bytes the second sink holds
    spc               \* position in stream_split

ppVars == <<token, parsed>>
wlVars == <<patternsArg, fin, show_line_number, pc, patterns, pos, number,
            line, idx, can_break, fout, result, ioFailed>>
ssVars == <<stdin, rpos, buf, bytes, stdout, stderr, spc>>
vars == <<ppVars, wlVars, ssVars>>

-----------------------------------------------------------------------------
(* Bounds of the model *)

\* longest token handed to Pattern::parse in SpecParse
MaxTokenLen == 5
\* largest line number the parse claims quantify over
MaxNum == 13
\* most comma-separated tokens in a pattern list
MaxPatterns == 2
\* longest input of write_lines, in bytes
MaxInputLen == 4
\* longest short input of stream_split, in bytes
MaxData == 3

-----------------------------------------------------------------------------
(* Generic helpers *)

Min(a, b) == IF a < b THEN a ELSE b

\* every sequence over S of length at most n
SeqsUpTo(S, n) == UNION {[1..k -> S] : k \in 0..n}

IsPrefix(s, t) == Len(s) <= Len(t) /\ SubSeq(t, 1, Len(s)) = s

-----------------------------------------------------------------------------
(* Option and Result *)

None == <<>>
Some(v) == <<v>>
is_some(o) == o # <<>>
unwrap_or(o, d) == IF o = <<>> THEN d ELSE o[1]

\* a call that has not returned yet
NotReturned == <<"None", <<>>>>
Ok(v) == <<"Ok", v>>
Err(e) == <<"Err", e>>
is_ok(r) == r[1] = "Ok"
is_err(r) == r[1] = "Err"

-----------------------------------------------------------------------------
(* usize *)

\* usize::MAX and NonZeroUsize::MAX.  TLC's integers are 32-bit, so usize is
\* modelled as the widest unsigned type they hold, 31 bits.
NonZeroUsizeMAX == 2147483647
NonZeroUsizeMIN == 1

Digits == <<"0", "1", "2", "3", "4", "5", "6", "7", "8", "9">>

IsDigit(c) == \E d \in 1..10 : Digits[d] = c
DigitVal(c) == (CHOOSE d \in 1..10 : Digits[d] = c) - 1

\* The digit loop of <usize as FromStr>::from_str: checked multiply and add.
RECURSIVE ParseDigits(_, _, _)
ParseDigits(s, i, acc) ==
    IF i > Len(s) THEN Ok(acc)
    ELSE IF ~IsDigit(s[i]) THEN Err("invalid digit found in string")
    ELSE IF acc > (NonZeroUsizeMAX - DigitVal(s[i])) \div 10
         THEN Err("number too large to fit in target type")
    ELSE ParseDigits(s, i + 1, acc * 10 + DigitVal(s[i]))

\* str::parse::<usize>(): an optional leading "+", then one or more digits.
ParseUsize(s) ==
    IF s = <<>> THEN Err("cannot parse integer from empty string")
    ELSE IF s = <<"+">> \/ s = <<"-">> THEN Err("invalid digit found in string")
    ELSE IF s[1] = "+" THEN ParseDigits(s, 2, 0)
    ELSE ParseDigits(s, 1, 0)

\* Display for usize, as write!(fout, "{number}") prints it.
RECURSIVE FmtUsize(_)
FmtUsize(n) ==
    IF n < 10 THEN <<Digits[n + 1]>>
    ELSE FmtUsize(n \div 10) \o <<Digits[(n % 10) + 1]>>

-----------------------------------------------------------------------------
(* Pattern *)

Pattern(s, e) == [start |-> s, end |-> e]

\* Pattern::is_included
is_included_OffByOne(pattern, n) ==
    /\ ~(is_some(pattern.start) /\ n < pattern.start[1])
    /\ ~(is_some(pattern.end) /\ n >= pattern.end[1])

is_included(pattern, n) ==
    /\ ~(is_some(pattern.start) /\ n < pattern.start[1])
    /\ ~(is_some(pattern.end) /\ n > pattern.end[1])

\* try_nonzero
try_nonzero(num) ==
    IF num = 0 THEN Err("Line numbers are 1-indexed") ELSE Ok(num)

\* str::split_once(".."): the text before and after the first "..", or None
split_once(s) ==
    LET hits == {i \in 1..(Len(s) - 1) : s[i] = "." /\ s[i + 1] = "."}
    IN  IF hits = {} THEN None
        ELSE LET i == CHOOSE h \in hits : \A g \in hits : h <= g
             IN  Some(<<SubSeq(s, 1, i - 1), SubSeq(s, i + 2, Len(s))>>)

\* the left side of a range: lines 43-47
parse_start(start) ==
    IF start = <<>> THEN Ok(None)
    ELSE LET n == ParseUsize(start)
         IN  IF is_err(n) THEN n
             ELSE LET nz == try_nonzero(n[2])
                  IN  IF is_err(nz) THEN nz ELSE Ok(Some(nz[2]))

\* the inclusive end an exclusive end `num` stands for: line 58
exclusive_to_inclusive_Same(num) == num

exclusive_to_inclusive(num) == num - 1

\* the right side of a range: lines 49-59
parse_end(end) ==
    IF end = <<>> THEN Ok(None)
    ELSE IF end[1] = "="
    THEN LET n == ParseUsize(Tail(end))
         IN  IF is_err(n) THEN n
             ELSE LET nz == try_nonzero(n[2])
                  IN  IF is_err(nz) THEN nz ELSE Ok(Some(nz[2]))
    ELSE LET n == ParseUsize(end)
         IN  IF is_err(n) THEN n
             ELSE IF n[2] <= 1
             THEN Err("End of exclusive range must be greater than 1")
             ELSE LET nz == try_nonzero(exclusive_to_inclusive(n[2]))
                  IN  IF is_err(nz) THEN nz ELSE Ok(Some(nz[2]))

\* the test of lines 61-63
is_reverse_Never(start, end) == FALSE

is_reverse(start, end) ==
    is_some(start) /\ is_some(end) /\ start[1] > end[1]

\* Pattern::parse
parse(pattern) ==
    LET sp == split_once(pattern)
    IN  IF is_some(sp)
        THEN LET start == parse_start(sp[1][1])
             IN  IF is_err(start) THEN start
                 ELSE LET end == parse_end(sp[1][2])
                      IN  IF is_err(end) THEN end
                          ELSE IF is_reverse(start[2], end[2])
                          THEN Err("Reverse patterns not supported")
                          ELSE Ok(Pattern(start[2], end[2]))
        ELSE LET n == ParseUsize(pattern)
             IN  IF is_ok(n)
                 THEN LET val == try_nonzero(n[2])
                      IN  IF is_err(val) THEN val
                          ELSE Ok(Pattern(Some(val[2]), Some(val[2])))
                 ELSE Err("Could not interpret line number pattern")

-----------------------------------------------------------------------------
(* Idle values: what a specification gives the variables it does not use *)

IdleParse == token = <<>> /\ parsed = <<>>

IdleWriteLines ==
    /\ patternsArg = <<>> /\ fin = <<>> /\ show_line_number = FALSE
    /\ pc = "idle" /\ patterns = <<>> /\ pos = 0 /\ number = 0
    /\ line = <<>> /\ idx = 0 /\ can_break = TRUE /\ fout = <<>>
    /\ result = NotReturned /\ ioFailed = FALSE

IdleSplit ==
    /\ stdin = <<>> /\ rpos = 0 /\ buf = <<>> /\ bytes = 0
    /\ stdout = <<>> /\ stderr = <<>> /\ spc = "idle"

-----------------------------------------------------------------------------
(* write_lines: the pure parts *)

Comma == ","
Newline == "\n"
CarriageReturn == "\r"
Tab == "\t"

\* str::split(","): the pieces between the commas, at least one
RECURSIVE split(_)
split(s) ==
    LET hits == {i \in 1..Len(s) : s[i] = Comma}
    IN  IF hits = {} THEN <<s>>
        ELSE LET i == CHOOSE h \in hits : \A g \in hits : h <= g
             IN  <<SubSeq(s, 1, i - 1)>> \o split(SubSeq(s, i + 1, Len(s)))

\* .map(Pattern::parse).collect::<Result<Vec<Pattern>>>(): the patterns of
\* all the tokens, or the error of the first token that has one
RECURSIVE collect(_, _, _)
collect(toks, i, acc) ==
    IF i > Len(toks) THEN Ok(acc)
    ELSE LET r == parse(toks[i])
         IN  IF is_err(r) THEN r ELSE collect(toks, i + 1, Append(acc, r[2]))

OrderError == "Lines currently must be given in order"

\* the comparison of line 102
out_of_order_Strict(prev_end, this_start) == prev_end >= this_start

out_of_order(prev_end, this_start) == prev_end > this_start

\* the closure given to try_fold: lines 98-107
fold_step(prev, this) ==
    IF (is_some(prev.start) \/ is_some(prev.end))
       /\ out_of_order(unwrap_or(prev.end, NonZeroUsizeMAX),
                       unwrap_or(this.start, NonZeroUsizeMIN))
    THEN Err(OrderError)
    ELSE Ok(this)

\* patterns.iter().try_fold(init, closure): lines 93-108
RECURSIVE try_fold(_, _, _)
try_fold(ps, i, prev) ==
    IF i > Len(ps) THEN Ok(prev)
    ELSE LET r == fold_step(prev, ps[i])
         IN  IF is_err(r) THEN r ELSE try_fold(ps, i + 1, r[2])

\* BufRead::lines(), one item: the line that starts after `p` bytes of `f`,
\* without its "\n" or "\r\n", and the count of bytes consumed with it
next_line(f, p) ==
    LET nls == {j \in (p + 1)..Len(f) : f[j] = Newline}
        stop == IF nls = {} THEN Len(f)
                ELSE CHOOSE j \in nls : \A k \in nls : j <= k
        raw == SubSeq(f, p + 1, stop)
        n == Len(raw)
        text == IF n > 0 /\ raw[n] = Newline
                THEN IF n > 1 /\ raw[n - 1] = CarriageReturn
                     THEN SubSeq(raw, 1, n - 2)
                     ELSE SubSeq(raw, 1, n - 1)
                ELSE raw
    IN  [text |-> text, pos |-> stop]

\* what one matching pattern writes for a line: lines 120-125
record(n, text, show) ==
    (IF show THEN FmtUsize(n) \o <<Tab>> ELSE <<>>) \o text \o <<Newline>>

\* whether a pattern keeps the loop reading after line n: lines 128-134
can_match_later_TooEarly(pattern, n) ==
    IF is_some(pattern.end) THEN pattern.end[1] > n + 1 ELSE TRUE

can_match_later_TooLate(pattern, n) ==
    IF is_some(pattern.end) THEN pattern.end[1] >= n ELSE TRUE

can_match_later(pattern, n) ==
    IF is_some(pattern.end) THEN pattern.end[1] > n ELSE TRUE

IoError == "io error"

\* the `?` on an I/O result: whether write_lines returns at once
returns_early_Never(ok) == FALSE

returns_early(ok) == ~ok

\* what the sink may do with a write of `rec`: take all of it, or fail
\* having taken any part short of all
write_outcomes(rec) ==
    {[written |-> rec, ok |-> TRUE]}
        \cup {[written |-> SubSeq(rec, 1, k), ok |-> FALSE] :
                 k \in 0..(Len(rec) - 1)}

-----------------------------------------------------------------------------
(* Spec: one call of write_lines *)

\* the tokens the pattern lists are built from
TokenSet ==
    { <<"1">>, <<"2">>, <<".", ".">>, <<"2", ".", ".">>,
      <<".", ".", "=", "1">>, <<"1", ".", ".", "3">>, <<"0">>,
      FmtUsize(NonZeroUsizeMAX) }

RECURSIVE join(_)
join(toks) ==
    IF Len(toks) = 1 THEN toks[1]
    ELSE toks[1] \o <<Comma>> \o join(Tail(toks))

PatternArgs ==
    {join(toks) : toks \in UNION {[1..k -> TokenSet] : k \in 1..MaxPatterns}}

InputBytes == {"a", Newline, CarriageReturn}

Init ==
    /\ patternsArg \in PatternArgs
    /\ fin \in SeqsUpTo(InputBytes, MaxInputLen)
    /\ show_line_number \in BOOLEAN
    /\ pc = "parse"
    /\ patterns = <<>>
    /\ pos = 0
    /\ number = 0
    /\ line = <<>>
    /\ idx = 0
    /\ can_break = TRUE
    /\ fout = <<>>
    /\ result = NotReturned
    /\ ioFailed = FALSE
    /\ IdleParse
    /\ IdleSplit

\* lines 86-89
ParsePatterns ==
    /\ pc = "parse"
    /\ LET r == collect(split(patternsArg), 1, <<>>)
       IN  IF is_err(r)
           THEN /\ result' = r
                /\ pc' = "done"
                /\ UNCHANGED patterns
           ELSE /\ patterns' = r[2]
                /\ pc' = "validate"
                /\ UNCHANGED result
    /\ UNCHANGED <<patternsArg, fin, show_line_number, pos, number, line,
                   idx, can_break, fout, ioFailed, ppVars, ssVars>>

\* lines 93-108, with the reading of a first line ahead of the error
ValidateOrder_AfterRead ==
    /\ pc = "validate"
    /\ LET r == try_fold(patterns, 1,  Pattern(None, None))
       IN  IF is_err(r)
           THEN /\ result' = r
                /\ pc' = "done"
                /\ pos' = next_line(fin, pos).pos
           ELSE /\ pc' = "read"
                /\ UNCHANGED <<result, pos>>
    /\ UNCHANGED <<patternsArg, fin, show_line_number, patterns, number,
                   line, idx, can_break, fout, ioFailed, ppVars, ssVars>>

\* lines 93-108
ValidateOrder ==
    /\ pc = "validate"
    /\ LET r == try_fold(patterns, 1,  Pattern(None, None))
       IN  IF is_err(r)
           THEN /\ result' = r
                /\ pc' = "done"
           ELSE /\ pc' = "read"
                /\ UNCHANGED result
    /\ UNCHANGED <<patternsArg, fin, show_line_number, patterns, pos, number,
                   line, idx, can_break, fout, ioFailed, ppVars, ssVars>>

\* lines 111-117: the next item of fin.lines().enumerate().  A failed read
\* is taken to consume nothing.
ReadLine ==
    /\ pc = "read"
    /\ \/ \* the read fails: `line?` returns the error
          /\ ioFailed' = TRUE
          /\ result' = Err(IoError)
          /\ pc' = "done"
          /\ UNCHANGED <<pos, number, line, idx, can_break>>
       \/ \* end of stream: the loop ends, line 141 returns Ok
          /\ pos = Len(fin)
          /\ result' = Ok(<<>>)
          /\ pc' = "done"
          /\ UNCHANGED <<pos, number, line, idx, can_break, ioFailed>>
       \/ \* a line
          /\ pos < Len(fin)
          /\ LET l == next_line(fin, pos)
             IN  /\ line' = l.text
                 /\ pos' = l.pos
          /\ number' = number + 1
          /\ can_break' = TRUE
          /\ idx' = 1
          /\ pc' = "patterns"
          /\ UNCHANGED <<result, ioFailed>>
    /\ UNCHANGED <<patternsArg, fin, show_line_number, patterns, fout,
                   ppVars, ssVars>>

\* lines 118-135: one pattern of the list against the current line.  The
\* writes of lines 121-125 are taken together as one write of the record,
\* which may fail after any part of it.
PatternStep ==
    /\ pc = "patterns"
    /\ idx <= Len(patterns)
    /\ LET pattern == patterns[idx]
           after == /\ can_break' =
                         (can_break /\ ~can_match_later(pattern, number))
                    /\ idx' = idx + 1
                    /\ UNCHANGED <<pc, result>>
       IN  IF is_included(pattern, number)
           THEN \E w \in write_outcomes(
                             record(number, line, show_line_number)) :
                    /\ fout' = fout \o w.written
                    /\ ioFailed' = (ioFailed \/ ~w.ok)
                    /\ IF returns_early(w.ok)
                       THEN /\ result' = Err(IoError)
                            /\ pc' = "done"
                            /\ UNCHANGED <<idx, can_break>>
                       ELSE after
           ELSE /\ after
                /\ UNCHANGED <<fout, ioFailed>>
    /\ UNCHANGED <<patternsArg, fin, show_line_number, patterns, pos, number,
                   line, ppVars, ssVars>>

\* lines 136-139: break, or go on to the next line
EndLine ==
    /\ pc = "patterns"
    /\ idx > Len(patterns)
    /\ IF can_break
       THEN /\ result' = Ok(<<>>)
            /\ pc' = "done"
       ELSE /\ pc' = "read"
            /\ UNCHANGED result
    /\ UNCHANGED <<patternsArg, fin, show_line_number, patterns, pos, number,
                   line, idx, can_break, fout, ioFailed, ppVars, ssVars>>

Next == ParsePatterns \/ ValidateOrder \/ ReadLine \/ PatternStep \/ EndLine

Spec == Init /\ [][Next]_vars

-----------------------------------------------------------------------------
(* Claims about write_lines *)

\* every line fin.lines() yields when read to the end
RECURSIVE lines_from(_, _)
lines_from(f, p) ==
    IF p >= Len(f) THEN <<>>
    ELSE LET l == next_line(f, p)
         IN  <<l.text>> \o lines_from(f, l.pos)

Lines == lines_from(fin, 0)

ReturnedOk == pc = "done" /\ result = Ok(<<>>)

\* line n lies in the span of range p: absent start = from line 1, absent
\* end = to the last line
InSpan(p, n) ==
    /\ (p.start = None \/ p.start[1] <= n)
    /\ (p.end = None \/ n <= p.end[1])

\* the lines range p selects, in input order, from line n on
RECURSIVE SelectedBy(_, _, _, _)
SelectedBy(p, ls, n, show) ==
    IF n > Len(ls) THEN <<>>
    ELSE (IF InSpan(p, n) THEN record(n, ls[n], show) ELSE <<>>)
             \o SelectedBy(p, ls, n + 1, show)

\* the selections of the ranges, one range after the other
RECURSIVE RangeOrderOutput(_, _, _, _)
RangeOrderOutput(ps, i, ls, show) ==
    IF i > Len(ps) THEN <<>>
    ELSE SelectedBy(ps[i], ls, 1, show) \o RangeOrderOutput(ps, i + 1, ls, show)

\* C1: for every accepted pattern list the output is the concatenation, in
\* range-list order, of the lines each range selects.
C1_RangeListOrder ==
    ReturnedOk => fout = RangeOrderOutput(patterns, 1, Lines, show_line_number)

\* k(n): how many ranges of the list span line n
SpanCount(ps, n) == Cardinality({i \in 1..Len(ps) : InSpan(ps[i], n)})

RECURSIVE Repeat(_, _)
Repeat(s, k) == IF k = 0 THEN <<>> ELSE s \o Repeat(s, k - 1)

\* for n from `n` to the last line, line n repeated k(n) times
RECURSIVE MultiplicityOutput(_, _, _, _)
MultiplicityOutput(ps, ls, n, show) ==
    IF n > Len(ls) THEN <<>>
    ELSE Repeat(record(n, ls[n], show), SpanCount(ps, n))
             \o MultiplicityOutput(ps, ls, n + 1, show)

\* C2: for every accepted pattern list the output is, for n = 1..L in
\* increasing n, line n written k(n) times, k(n) the number of ranges that
\* span n; a line no range spans is never written.
C2_Multiplicity ==
    ReturnedOk =>
        fout = MultiplicityOutput(patterns, Lines, 1, show_line_number)

\* C2 witness: a call returned Ok with a line written twice and a line
\* left out
C2_Witness ==
    /\ ReturnedOk
    /\ \E n \in 1..Len(Lines) : SpanCount(patterns, n) >= 2
    /\ \E n \in 1..Len(Lines) : SpanCount(patterns, n) = 0

HasBound(p) == is_some(p.start) \/ is_some(p.end)

\* validation has run on a list of individually valid tokens
Validated == patterns # <<>> /\ pc # "validate"

\* C3 as stated: the ordering error is returned if and only if some
\* adjacent pair (prev, this) has prev with a bound set and
\* effective_end(prev) > effective_start(this), an absent end counting as
\* infinity and an absent start as 0.
C3_OrderErrorIff_Original ==
    Validated =>
        (result = Err(OrderError)
            <=> \E i \in 1..(Len(patterns) - 1) :
                    /\ HasBound(patterns[i])
                    /\ \/ patterns[i].end = None
                       \/ patterns[i].end[1] > unwrap_or(patterns[i + 1].start, 0))

\* C3 amended: the ordering error is returned if and only if some adjacent
\* pair (prev, this) has prev with a bound set and effective_end(prev) >
\* effective_start(this), an absent end counting as usize::MAX and an absent
\* start as 1.
C3_OrderErrorIff ==
    Validated =>
        (result = Err(OrderError)
            <=> \E i \in 1..(Len(patterns) - 1) :
                    /\ HasBound(patterns[i])
                    /\ (IF patterns[i].end = None THEN NonZeroUsizeMAX
                        ELSE patterns[i].end[1])
                         > (IF patterns[i + 1].start = None THEN 1
                            ELSE patterns[i + 1].start[1]))

\* C3 witness: a list whose second range has no start, after a range that
\* ends at line 1, passed validation
C3_Witness ==
    /\ pc = "read"
    /\ Len(patterns) = 2
    /\ patterns[1].end = Some(1)
    /\ patterns[2].start = None

PatternError == pc = "done" /\ is_err(result) /\ result # Err(IoError)

\* C4: when write_lines returns a pattern-related error (a token that does
\* not parse, or a list out of order), it has read nothing from the input
\* and written nothing to the output.
C4_PatternErrorNoSideEffects ==
    PatternError => (pos = 0 /\ fout = <<>> /\ ~ioFailed)

\* C4 witness: the ordering error was returned for a non-empty input
C4_Witness ==
    /\ pc = "done"
    /\ result = Err(OrderError)
    /\ fin # <<>>

\* the read loop without its break, from line n and pattern i on
RECURSIVE NoBreakOutput(_, _, _, _, _)
NoBreakOutput(ps, ls, n, i, show) ==
    IF n > Len(ls) THEN <<>>
    ELSE IF i > Len(ps) THEN NoBreakOutput(ps, ls, n + 1, 1, show)
    ELSE (IF is_included(ps[i], n) THEN record(n, ls[n], show) ELSE <<>>)
             \o NoBreakOutput(ps, ls, n, i + 1, show)

\* C5: early termination does not change the output: what write_lines wrote
\* is what the same loop without the break writes, reading to end-of-stream.
C5_BreakKeepsOutput ==
    ReturnedOk =>
        fout = NoBreakOutput(patterns, Lines, 1, 1, show_line_number)

\* C5 witness: a call that wrote something returned Ok with input left unread
C5_Witness ==
    /\ ReturnedOk
    /\ pos < Len(fin)
    /\ fout # <<>>

AllHaveEnd ==
    /\ patterns # <<>>
    /\ \A i \in 1..Len(patterns) : is_some(patterns[i].end)

MaxEnd ==
    CHOOSE e \in {patterns[i].end[1] : i \in 1..Len(patterns)} :
        \A i \in 1..Len(patterns) : patterns[i].end[1] <= e

\* C6: after processing line n, line n + 1 is requested if and only if some
\* range has an absent end or an end greater than n; so when every range
\* has an end, at most max(end) lines are read.
C6_ReadsOnlyWhileNeeded ==
    /\ [](AllHaveEnd => number <= MaxEnd)
    /\ [][(pc = "patterns" /\ idx > Len(patterns))
            => (pc' = "read"
                  <=> \E i \in 1..Len(patterns) :
                          \/ patterns[i].end = None
                          \/ patterns[i].end[1] > number)]_vars

\* C6 witness: every range has an end, max(end) lines were read, and the
\* call returned with input left unread
C6_Witness ==
    /\ ReturnedOk
    /\ AllHaveEnd
    /\ number = MaxEnd
    /\ pos < Len(fin)

\* C7: when a read or a write fails, write_lines returns an error at once:
\* no read or write follows the failing one, and what was written before
\* it stays, so the output is a prefix of the failure-free output.
C7_IoErrorAborts ==
    /\ [](ioFailed =>
            /\ pc = "done"
            /\ result = Err(IoError)
            /\ IsPrefix(fout, NoBreakOutput(patterns, Lines, 1, 1,
                                            show_line_number)))
    /\ [][ioFailed => UNCHANGED <<pos, fout>>]_vars

\* C7 witness: a write failed after a whole record and part of the next
\* were written
C7_Witness ==
    /\ ioFailed
    /\ pc = "done"
    /\ number >= 1
    /\ Len(fout) > Len(record(1, Lines[1], show_line_number))

-----------------------------------------------------------------------------
(* SpecParse: Pattern::parse applied to every short token *)

TokenChars == {"0", "1", "2", "3", ".", "=", "+"}

InitParse ==
    /\ token \in SeqsUpTo(TokenChars, MaxTokenLen)
    /\ parsed = <<>>
    /\ IdleWriteLines
    /\ IdleSplit

CallParse ==
    /\ parsed = <<>>
    /\ parsed' = <<parse(token)>>
    /\ UNCHANGED <<token, wlVars, ssVars>>

NextParse == CallParse

SpecParse == InitParse /\ [][NextParse]_vars

Dots == <<".", ".">>
DotsEq == <<".", ".", "=">>

\* C8: Pattern::parse converts the bounds of every token shape: "N" yields
\* start = end = N; ".." yields no bounds; "A..B" with B > A yields start A
\* and inclusive end B - 1; "A..=B" with B >= A yields start A and end B; an
\* empty side yields an absent bound.
C8_ParseConversions ==
    parsed # <<>> =>
        /\ token = Dots => parsed[1] = Ok(Pattern(None, None))
        /\ \A A \in 1..MaxNum :
            /\ token = FmtUsize(A) =>
                   parsed[1] = Ok(Pattern(Some(A), Some(A)))
            /\ token = FmtUsize(A) \o Dots =>
                   parsed[1] = Ok(Pattern(Some(A), None))
            /\ token = DotsEq \o FmtUsize(A) =>
                   parsed[1] = Ok(Pattern(None, Some(A)))
            /\ (A > 1 /\ token = Dots \o FmtUsize(A)) =>
                   parsed[1] = Ok(Pattern(None, Some(A - 1)))
            /\ \A B \in 1..MaxNum :
                /\ (B > A /\ token = FmtUsize(A) \o Dots \o FmtUsize(B)) =>
                       parsed[1] = Ok(Pattern(Some(A), Some(B - 1)))
                /\ (B >= A /\ token = FmtUsize(A) \o DotsEq \o FmtUsize(B)) =>
                       parsed[1] = Ok(Pattern(Some(A), Some(B)))

\* C8 witness: "1..3" was parsed, to start 1 and inclusive end 2
C8_Witness ==
    /\ token = <<"1", ".", ".", "3">>
    /\ parsed = <<Ok(Pattern(Some(1), Some(2)))>>

\* the data-model invariant of a Range
RangeInvariant(p) ==
    /\ is_some(p.start) => p.start[1] >= 1
    /\ is_some(p.end) => p.end[1] >= 1
    /\ (is_some(p.start) /\ is_some(p.end)) => p.start[1] <= p.end[1]

\* C10: every Range that Pattern::parse returns has each present bound >= 1
\* and start <= end; a token with a bound of 0, an exclusive end <= 1, or a
\* start above its inclusive end is an error.
C10_ParsedRangeValid ==
    parsed # <<>> =>
        /\ is_ok(parsed[1]) => RangeInvariant(parsed[1][2])
        /\ \A A \in 0..MaxNum :
            /\ (A = 0 /\ token \in {FmtUsize(A), FmtUsize(A) \o Dots,
                                    DotsEq \o FmtUsize(A)})
                   => is_err(parsed[1])
            /\ (A <= 1 /\ token = Dots \o FmtUsize(A)) => is_err(parsed[1])
            /\ \A B \in 0..MaxNum :
                /\ ((A = 0 \/ B <= 1 \/ A > B - 1)
                        /\ token = FmtUsize(A) \o Dots \o FmtUsize(B))
                       => is_err(parsed[1])
                /\ ((A = 0 \/ B = 0 \/ A > B)
                        /\ token = FmtUsize(A) \o DotsEq \o FmtUsize(B))
                       => is_err(parsed[1])

\* C10 witness: the reversed token "3..=2" was parsed, to an error
C10_Witness ==
    /\ token = <<"3", ".", ".", "=", "2">>
    /\ parsed # <<>>
    /\ is_err(parsed[1])

-----------------------------------------------------------------------------
(* SpecSplit: one call of stream_split.  A byte is a number; the buffer   *)
(* starts as PAGE_SIZE zero bytes.                                         *)

PAGE_SIZE == 4096

DataBytes == {1, 2}

\* an input that does not fit the buffer
LongInput == [i \in 1..(PAGE_SIZE + MaxData) |-> 1 + (i % 2)]

\* the counts a read may return with r bytes left and a buffer of PAGE_SIZE:
\* any count when few bytes are left, a full buffer (what io::Cursor gives)
\* when many are
read_sizes(r) ==
    IF r <= MaxData THEN 1..Min(r, PAGE_SIZE) ELSE {Min(r, PAGE_SIZE)}

\* the slice handed to write_all: lines 22 and 23
write_slice_OneShort(b, n) == SubSeq(b, 1, n - 1)

write_slice(b, n) == SubSeq(b, 1, n)

InitSplit ==
    /\ stdin \in SeqsUpTo(DataBytes, MaxData) \cup {LongInput}
    /\ rpos = 0
    /\ buf = [i \in 1..PAGE_SIZE |-> 0]
    /\ bytes = 0
    /\ stdout = <<>>
    /\ stderr = <<>>
    /\ spc = "read"
    /\ IdleParse
    /\ IdleWriteLines

\* lines 19-20: stdin.read(&mut buf)?, and the test of the count
SplitRead ==
    /\ spc = "read"
    /\ \/ \* the read fails
          /\ spc' = "err"
          /\ UNCHANGED <<rpos, buf, bytes>>
       \/ \* end of stream: the read returns 0, the loop ends, Ok(())
          /\ rpos = Len(stdin)
          /\ bytes' = 0
          /\ spc' = "ok"
          /\ UNCHANGED <<rpos, buf>>
       \/ \* some bytes
          /\ rpos < Len(stdin)
          /\ \E n \in read_sizes(Len(stdin) - rpos) :
                /\ buf' = [i \in 1..PAGE_SIZE |->
                              IF i <= n THEN stdin[rpos + i] ELSE buf[i]]
                /\ bytes' = n
                /\ rpos' = rpos + n
          /\ spc' = "write_stdout"
    /\ UNCHANGED <<stdin, stdout, stderr, ppVars, wlVars>>

\* line 22
WriteStdout ==
    /\ spc = "write_stdout"
    /\ \E w \in write_outcomes(write_slice(buf, bytes)) :
          /\ stdout' = stdout \o w.written
          /\ spc' = IF w.ok THEN "write_stderr" ELSE "err"
    /\ UNCHANGED <<stdin, rpos, buf, bytes, stderr, ppVars, wlVars>>

\* line 23
WriteStderr ==
    /\ spc = "write_stderr"
    /\ \E w \in write_outcomes(write_slice(buf, bytes)) :
          /\ stderr' = stderr \o w.written
          /\ spc' = IF w.ok THEN "read" ELSE "err"
    /\ UNCHANGED <<stdin, rpos, buf, bytes, stdout, ppVars, wlVars>>

NextSplit == SplitRead \/ WriteStdout \/ WriteStderr

SpecSplit == InitSplit /\ [][NextSplit]_vars

\* C9: when stream_split returns Ok, both sinks hold exactly the input
\* bytes, complete and in order, however the reader cut them into chunks;
\* the loop ends at the first read that returns 0 bytes.
C9_BothSinksGetInput ==
    /\ spc = "ok" => (stdout = stdin /\ stderr = stdin /\ bytes = 0)
    /\ spc \in {"write_stdout", "write_stderr"} => bytes > 0

\* C9 witness: an input longer than the buffer was copied, and Ok returned
C9_Witness ==
    /\ spc = "ok"
    /\ Len(stdin) > PAGE_SIZE
    /\ stdout = stdin

=============================================================================
